---- MODULE Spec2Model ----
(***************************************************************************)
(* Model of matrix_visualizer.draw_matrix: a tiled raster view of a 2D     *)
(* matrix with a module-level cache of display handles.                    *)
(*                                                                         *)
(* State: pyplot's registry of figures, the module's _figure_cache, and    *)
(* the arguments and outcome of the call in progress.  A caller issues a   *)
(* call, draw_matrix runs as one action, the caller takes the outcome, and *)
(* between calls the user may close a window.                              *)
(***************************************************************************)
EXTENDS Integers, Sequences, FiniteSets

VARIABLES figs, figure_cache, call, raised, pc

vars == <<figs, figure_cache, call, raised, pc>>

----------------------------------------------------------------------------
(* Bounds of the model                                                     *)

\* largest number of rows and of columns of an input matrix
MaxDim == 2
\* largest number of figures pyplot is asked to create in one behaviour
MaxSurfaces == 2

----------------------------------------------------------------------------
(* Values                                                                  *)

\* Python's None / a present optional argument
None == <<>>
Some(x) == <<x>>
IsNone(o) == o = <<>>
Val(o) == o[1]

NoError == [type |-> "none", at |-> "none"]
NoCall == [matrix |-> [ndim |-> 0, data |-> <<>>], mode |-> "none",
           grid_rows |-> None, grid_cols |-> None, figsize |-> <<0, 0>>,
           cmap |-> None, vmin |-> None, vmax |-> None, title |-> None]

\* integer minimum / maximum of a non-empty set
SetMin(S) == CHOOSE x \in S : \A y \in S : x <= y
SetMax(S) == CHOOSE x \in S : \A y \in S : x >= y

\* matrix.shape of a 2D array held as a sequence of rows
NRows(m) == Len(m.data)
NCols(m) == Len(m.data[1])

\* np.min(matrix), np.max(matrix): over the entire matrix
Elements(m) == {m.data[i][j] : i \in 1..NRows(m), j \in 1..NCols(m)}
np_min(m) == SetMin(Elements(m))
np_max(m) == SetMax(Elements(m))

----------------------------------------------------------------------------
(* draw_matrix, lines 53-77: validation                                    *)

\* a grid argument is [isint, v]: isinstance(x, int) and its value
effective_grid(g) == IF IsNone(g) THEN [isint |-> TRUE, v |-> 1] ELSE Val(g)

\* Validate as it would be with the divisibility check of line 70 left out
ValidateNoDivisibility(c) ==
    LET er == effective_grid(c.grid_rows)
        ec == effective_grid(c.grid_cols)
    IN  IF c.matrix.ndim # 2 THEN [type |-> "TypeError", at |-> "matrix"]
        ELSE IF c.mode \notin {"binary", "color"}
             THEN [type |-> "ValueError", at |-> "mode"]
        ELSE IF ~er.isint \/ er.v <= 0
             THEN [type |-> "ValueError", at |-> "grid_rows"]
        ELSE IF ~ec.isint \/ ec.v <= 0
             THEN [type |-> "ValueError", at |-> "grid_cols"]
        ELSE NoError

\* The exception the checks of lines 53-77 raise, NoError when all pass.
\* The message of line 73 is an f-string that reads effective_cols, a name
\* bound nowhere: building the ValueError raises NameError instead.
Validate(c) ==
    LET er == effective_grid(c.grid_rows)
        ec == effective_grid(c.grid_cols)
    IN  IF c.matrix.ndim # 2 THEN [type |-> "TypeError", at |-> "matrix"]
        ELSE IF c.mode \notin {"binary", "color"}
             THEN [type |-> "ValueError", at |-> "mode"]
        ELSE IF ~er.isint \/ er.v <= 0
             THEN [type |-> "ValueError", at |-> "grid_rows"]
        ELSE IF ~ec.isint \/ ec.v <= 0
             THEN [type |-> "ValueError", at |-> "grid_cols"]
        ELSE IF NRows(c.matrix) % er.v # 0 \/ NCols(c.matrix) % ec.v # 0
             THEN [type |-> "NameError", at |-> "effective_cols"]
        ELSE NoError

\* lines 79-80
tile_rows(c) == NRows(c.matrix) \div effective_grid(c.grid_rows).v
tile_cols(c) == NCols(c.matrix) \div effective_grid(c.grid_cols).v

\* line 85
figure_key(c) ==
    <<c.title, effective_grid(c.grid_rows).v, effective_grid(c.grid_cols).v,
      c.figsize>>

----------------------------------------------------------------------------
(* draw_matrix, lines 87-112: the display handle                           *)

\* _figure_cache.get(figure_key, (None, None, None)): the figure number of
\* the cached handle, 0 for the default
CacheGet(cache, key) ==
    IF \E e \in cache : e.key = key
    THEN (CHOOSE e \in cache : e.key = key).fig
    ELSE 0

\* plt.fignum_exists(fig.number)
fignum_exists(fs, n) == n \in 1..Len(fs) /\ fs[n].open

\* plt.subplots(effective_grid_rows, effective_grid_cols, figsize=figsize)
\* with image_objects = np.empty(..., dtype=object): every cell None
subplots(key) ==
    [key |-> key, open |-> TRUE, ticks |-> TRUE, suptitle |-> None,
     image_objects |-> [i \in 1..key[2] |-> [j \in 1..key[3] |-> None]]]

\* The value line 103 stores is the tuple (fig, axes, image_objects).
\* WeakValueDictionary.__setitem__ builds a weak reference to the value, and
\* the built-in containers and numbers cannot be weakly referenced.
HandleType == "tuple"
WeakReferenceable(type) ==
    type \notin {"tuple", "list", "dict", "int", "str", "NoneType"}

\* _figure_cache[figure_key] = (fig, axes, image_objects)
CacheStore(cache, key, fig) ==
    IF WeakReferenceable(HandleType)
    THEN [raised |-> NoError,
          cache |-> {e \in cache : e.key # key} \cup {[key |-> key, fig |-> fig]}]
    ELSE [raised |-> [type |-> "TypeError", at |-> "weakref"], cache |-> cache]

\* lines 106-110: ax.set_xticks([]); ax.set_yticks([]) on every sub-surface
StripTicks(s) == [s EXCEPT !.ticks = FALSE]

----------------------------------------------------------------------------
(* draw_matrix, lines 115-154: tiles                                       *)

\* matrix[i*tile_rows:(i+1)*tile_rows, j*tile_cols:(j+1)*tile_cols], with
\* the grid position (i, j) counted from 1
Slice(data, c, i, j) ==
    [r \in 1..tile_rows(c) |->
        [k \in 1..tile_cols(c) |->
            data[(i - 1) * tile_rows(c) + r][(j - 1) * tile_cols(c) + k]]]

\* binary_matrix = matrix > 0
binary_matrix(m) ==
    [r \in 1..NRows(m) |-> [k \in 1..NCols(m) |-> m.data[r][k] > 0]]

binary_cmap == "ListedColormap(black,white)"

\* the palette and value range of the call: lines 119-120 and 138-140
plot_cmap(c) ==
    IF c.mode = "binary" THEN binary_cmap
    ELSE IF ~IsNone(c.cmap) THEN Val(c.cmap) ELSE "viridis"
plot_vmin(c) ==
    IF c.mode = "binary" THEN 0
    ELSE IF ~IsNone(c.vmin) THEN Val(c.vmin) ELSE np_min(c.matrix)
plot_vmax(c) ==
    IF c.mode = "binary" THEN 1
    ELSE IF ~IsNone(c.vmax) THEN Val(c.vmax) ELSE np_max(c.matrix)

tile_data(c, i, j) ==
    IF c.mode = "binary" THEN Slice(binary_matrix(c.matrix), c, i, j)
    ELSE Slice(c.matrix.data, c, i, j)

\* ax.imshow(...) when image_objects[i, j] is None, else set_data, set_cmap
\* and set_clim on the bitmap view already there (views counts the views
\* ever made in the cell)
RenderCell(cell, c, i, j) ==
    Some([data |-> tile_data(c, i, j), cmap |-> plot_cmap(c),
          vmin |-> plot_vmin(c), vmax |-> plot_vmax(c),
          views |-> IF IsNone(cell) THEN 1 ELSE Val(cell).views])

RenderTiles(s, c) ==
    [s EXCEPT !.image_objects =
        [i \in 1..s.key[2] |->
            [j \in 1..s.key[3] |-> RenderCell(s.image_objects[i][j], c, i, j)]]]

\* lines 157-162: fig.suptitle(title) when title is truthy, else the text
\* of an existing heading is emptied
SetTitle(s, c) ==
    IF ~IsNone(c.title) /\ Val(c.title) # ""
    THEN [s EXCEPT !.suptitle = c.title]
    ELSE IF ~IsNone(s.suptitle) THEN [s EXCEPT !.suptitle = Some("")]
    ELSE s

----------------------------------------------------------------------------
(* draw_matrix as a whole                                                  *)

\* TRUE when the call has to make a figure (line 90)
NeedsFigure(fs, cache, c) ==
    /\ Validate(c) = NoError
    /\ ~fignum_exists(fs, CacheGet(cache, figure_key(c)))

\* Registry, cache and exception after draw_matrix(c) from (fs, cache).
Run(fs, cache, c) ==
    LET err == Validate(c)
        key == figure_key(c)
        hit == CacheGet(cache, key)
    IN  IF err # NoError
        THEN [figs |-> fs, cache |-> cache, raised |-> err]
        ELSE IF fignum_exists(fs, hit)
        THEN [figs |-> [fs EXCEPT ![hit] = SetTitle(RenderTiles(@, c), c)],
              cache |-> cache, raised |-> NoError]
        ELSE LET n == Len(fs) + 1
                 made == Append(fs, subplots(key))
                 st == CacheStore(cache, key, n)
             IN  IF st.raised # NoError
                 THEN [figs |-> made, cache |-> st.cache, raised |-> st.raised]
                 ELSE [figs |-> [made EXCEPT
                                   ![n] = SetTitle(RenderTiles(StripTicks(@), c), c)],
                       cache |-> st.cache, raised |-> NoError]

----------------------------------------------------------------------------
(* Inputs                                                                  *)

IntArg(n) == Some([isint |-> TRUE, v |-> n])
FloatArg(n) == Some([isint |-> FALSE, v |-> n])

\* grid_rows / grid_cols: absent (1), 0, 2 and the float 2.0
GridArgs == {None, IntArg(0), IntArg(2), FloatArg(2)}
Tilings == {None, IntArg(2)}
Titles == {None, Some("A")}
Modes == {"binary", "color", "grayscale"}
DefaultFigsize == <<6, 6>>
Figsizes == {DefaultFigsize, <<4, 4>>}

\* a 1-D array
OneD == [ndim |-> 1, data |-> <<0, 1>>]

\* r x c matrices: all <= 0, all > 0, and 0, 1, 2, ... in row-major order
Entry(fill, r, c, i, j) ==
    CASE fill = "dark" -> 0 - ((i + j) % 2)
      [] fill = "light" -> 1 + ((i + j) % 2)
      [] OTHER -> (i - 1) * c + (j - 1)
Matrix(fill, r, c) ==
    [ndim |-> 2, data |-> [i \in 1..r |-> [j \in 1..c |-> Entry(fill, r, c, i, j)]]]
Fills == {"dark", "light", "mixed"}
Matrices(fills) ==
    {Matrix(f, r, c) : f \in fills, r \in 1..MaxDim, c \in 1..MaxDim}

CallSet(arrays, modes, rowargs, colargs, sizes, cmaps, vmins, vmaxs, titles) ==
    [matrix : arrays, mode : modes, grid_rows : rowargs, grid_cols : colargs,
     figsize : sizes, cmap : cmaps, vmin : vmins, vmax : vmaxs, title : titles]

\* calls that exercise the parameter checks and the configuration key
ShapeCalls ==
    CallSet(Matrices({"mixed"}) \cup {OneD}, {"binary"}, GridArgs, GridArgs,
            {DefaultFigsize}, {None}, {None}, {None}, {None})
KeyCalls ==
    CallSet({Matrix("mixed", MaxDim, MaxDim)}, Modes, Tilings, {None},
            Figsizes, {None}, {None}, {None}, Titles)
Calls == ShapeCalls \cup KeyCalls

\* calls that exercise the tile data, the palette and the value range
DataCalls ==
    CallSet(Matrices(Fills), {"binary", "color"}, Tilings, Tilings,
            {DefaultFigsize}, {None, Some("gray")}, {None, Some(0)}, {None, Some(1)}, {None})

----------------------------------------------------------------------------
(* Actions                                                                 *)

Init ==
    /\ figs = <<>>
    /\ figure_cache = {}
    /\ call = NoCall
    /\ raised = NoError
    /\ pc = "idle"

\* a caller invokes draw_matrix(c)
Call(c) ==
    /\ pc = "idle"
    /\ NeedsFigure(figs, figure_cache, c) => Len(figs) < MaxSurfaces
    /\ call' = c
    /\ raised' = NoError
    /\ pc' = "called"
    /\ UNCHANGED <<figs, figure_cache>>

\* the body of draw_matrix, from line 53 to its return or its exception
DrawMatrix ==
    /\ pc = "called"
    /\ LET out == Run(figs, figure_cache, call)
       IN  /\ figs' = out.figs
           /\ figure_cache' = out.cache
           /\ raised' = out.raised
    /\ pc' = "returned"
    /\ UNCHANGED call

\* the caller takes the return or the exception
Return ==
    /\ pc = "returned"
    /\ pc' = "idle"
    /\ call' = NoCall
    /\ raised' = NoError
    /\ UNCHANGED <<figs, figure_cache>>

\* the user closes window n
CloseFigure(n) ==
    /\ pc = "idle"
    /\ n \in 1..Len(figs)
    /\ figs[n].open
    /\ figs' = [figs EXCEPT ![n].open = FALSE]
    /\ UNCHANGED <<figure_cache, call, raised, pc>>

Close == \E n \in 1..MaxSurfaces : CloseFigure(n)

CallAny == \E c \in Calls : Call(c)
CallData == \E c \in DataCalls : Call(c)

Next == CallAny \/ DrawMatrix \/ Return \/ Close
Spec == Init /\ [][Next]_vars

NextData == CallData \/ DrawMatrix \/ Return \/ Close
RenderSpec == Init /\ [][NextData]_vars

----------------------------------------------------------------------------
(* Vocabulary of the properties                                            *)

PositiveInt(g) == effective_grid(g).isint /\ effective_grid(g).v > 0

\* the input is one the documented contract accepts
ValidInput(c) ==
    /\ c.matrix.ndim = 2
    /\ c.mode \in {"binary", "color"}
    /\ PositiveInt(c.grid_rows)
    /\ PositiveInt(c.grid_cols)
    /\ NRows(c.matrix) % effective_grid(c.grid_rows).v = 0
    /\ NCols(c.matrix) % effective_grid(c.grid_cols).v = 0

\* the step in which draw_matrix runs, and the state it leaves
Ran == pc = "called" /\ pc' = "returned"
Returned == pc = "returned"

\* open figures made for a key, and the one a call with that key draws on
OpenFigs(fs, key) == {n \in 1..Len(fs) : fs[n].key = key /\ fs[n].open}
UsedFigs(fs, key) == {n \in 1..Len(fs) : fs[n].key = key}
Target(c) == SetMax(OpenFigs(figs, figure_key(c)))
Populated(s) ==
    \A i \in 1..s.key[2] : \A j \in 1..s.key[3] : ~IsNone(s.image_objects[i][j])
Bitmap(s, i, j) == Val(s.image_objects[i][j])

\* C1. Of two consecutive calls with valid input and the same configuration
\* key, the surface of the first still open, the second makes no surface,
\* finds the first call's handle in the cache and leaves it there, and every
\* grid cell keeps the one bitmap view the first call made.
C1_SecondCallReusesHandle ==
    [][(/\ Ran
        /\ ValidInput(call)
        /\ Len(figs) > 0
        /\ figs[Len(figs)].key = figure_key(call)
        /\ figs[Len(figs)].open)
       => (/\ Len(figs') = Len(figs)
           /\ CacheGet(figure_cache, figure_key(call)) = Len(figs)
           /\ CacheGet(figure_cache', figure_key(call)) = Len(figs)
           /\ Populated(figs'[Len(figs)])
           /\ \A i \in 1..figure_key(call)[2] : \A j \in 1..figure_key(call)[3] :
                 Bitmap(figs'[Len(figs)], i, j).views = 1)]_vars

\* C2. A call with valid input and a key whose every earlier surface has been
\* closed makes one new open surface with every bitmap view populated,
\* registers it under the key and raises nothing.
C2_RecreatesAfterClose ==
    [][(/\ Ran
        /\ ValidInput(call)
        /\ UsedFigs(figs, figure_key(call)) # {}
        /\ OpenFigs(figs, figure_key(call)) = {})
       => (/\ raised' = NoError
           /\ Len(figs') = Len(figs) + 1
           /\ figs'[Len(figs')].open
           /\ Populated(figs'[Len(figs')])
           /\ CacheGet(figure_cache', figure_key(call)) = Len(figs'))]_vars

\* C3. A call that raises has made no surface, written no cache entry and
\* touched no bitmap, and a call whose input passes validation does not raise.
C3_FailuresAreValidationOnly ==
    [][Ran => (/\ raised' # NoError => figs' = figs /\ figure_cache' = figure_cache
               /\ ValidInput(call) => raised' = NoError)]_vars

\* C4. A call with invalid input (not a 2D array, an unknown mode, a grid
\* argument that is not a positive integer, dimensions the grid does not
\* divide) raises and leaves the cache and every figure as they were.
C4_InvalidInputRaisesAndChangesNothing ==
    [][(Ran /\ ~ValidInput(call))
       => (raised' # NoError /\ figs' = figs /\ figure_cache' = figure_cache)]_vars

\* a call the grid does not divide has been rejected while a figure exists
C4_Witness ==
    /\ Returned
    /\ call.matrix.ndim = 2
    /\ call.mode = "binary"
    /\ PositiveInt(call.grid_rows) /\ PositiveInt(call.grid_cols)
    /\ ~ValidInput(call)
    /\ raised # NoError
    /\ \E n \in 1..Len(figs) : figs[n].open

\* C5. A 2D matrix whose dimensions the positive integer grid does not divide
\* is rejected with a ValueError, as by the other parameter checks.
C5_NonDivisibleIsValueError ==
    (/\ Returned
     /\ call.matrix.ndim = 2
     /\ call.mode \in {"binary", "color"}
     /\ PositiveInt(call.grid_rows) /\ PositiveInt(call.grid_cols)
     /\ ~ValidInput(call))
    => (raised.type = "ValueError" /\ \A n \in 1..Len(figs) : ~Populated(figs[n]))

\* what a call pushes at matrix position (x, y): the element, or in binary
\* mode whether it is > 0
Source(c, x, y) ==
    IF c.mode = "binary" THEN c.matrix.data[x][y] > 0 ELSE c.matrix.data[x][y]

\* C6. After a call with valid input the tiles on the sub-surfaces partition
\* the matrix: tile (i, j) has rows/grid_rows rows and cols/grid_cols columns,
\* and matrix position (x, y) is found in exactly the tile and the place the
\* grid order gives it.
C6_TilesPartitionMatrix ==
    (Returned /\ ValidInput(call))
    => (/\ OpenFigs(figs, figure_key(call)) # {}
        /\ Populated(figs[Target(call)])
        /\ LET s == figs[Target(call)]
               gr == effective_grid(call.grid_rows).v
               gc == effective_grid(call.grid_cols).v
               tr == NRows(call.matrix) \div gr
               tc == NCols(call.matrix) \div gc
           IN  /\ \A i \in 1..gr : \A j \in 1..gc :
                     /\ Len(Bitmap(s, i, j).data) = tr
                     /\ \A r \in 1..tr : Len(Bitmap(s, i, j).data[r]) = tc
               /\ \A x \in 1..NRows(call.matrix) : \A y \in 1..NCols(call.matrix) :
                     Bitmap(s, ((x - 1) \div tr) + 1, ((y - 1) \div tc) + 1)
                        .data[((x - 1) % tr) + 1][((y - 1) % tc) + 1]
                     = Source(call, x, y))

\* C7. After a binary call with valid input every tile has the two-entry
\* palette and the range [0, 1], whatever cmap, vmin and vmax were, and each
\* displayed cell is light exactly when its matrix element is > 0.
C7_BinaryThreshold ==
    (Returned /\ ValidInput(call) /\ call.mode = "binary")
    => (/\ OpenFigs(figs, figure_key(call)) # {}
        /\ Populated(figs[Target(call)])
        /\ LET s == figs[Target(call)]
               tr == NRows(call.matrix) \div s.key[2]
               tc == NCols(call.matrix) \div s.key[3]
           IN  /\ \A i \in 1..s.key[2] : \A j \in 1..s.key[3] :
                     /\ Bitmap(s, i, j).cmap = "ListedColormap(black,white)"
                     /\ Bitmap(s, i, j).vmin = 0
                     /\ Bitmap(s, i, j).vmax = 1
               /\ \A x \in 1..NRows(call.matrix) : \A y \in 1..NCols(call.matrix) :
                     Bitmap(s, ((x - 1) \div tr) + 1, ((y - 1) \div tc) + 1)
                        .data[((x - 1) % tr) + 1][((y - 1) % tc) + 1]
                     = (call.matrix.data[x][y] > 0))

\* C8. After a color call with valid input every tile has the same range:
\* vmin when given (0 included), else the minimum of the whole matrix, and
\* vmax when given, else the maximum of the whole matrix.
C8_ColorRangeIsGlobal ==
    (Returned /\ ValidInput(call) /\ call.mode = "color")
    => (/\ OpenFigs(figs, figure_key(call)) # {}
        /\ Populated(figs[Target(call)])
        /\ LET s == figs[Target(call)]
               lo == IF call.vmin # None THEN call.vmin[1]
                     ELSE SetMin(Elements(call.matrix))
               hi == IF call.vmax # None THEN call.vmax[1]
                     ELSE SetMax(Elements(call.matrix))
           IN  \A i \in 1..s.key[2] : \A j \in 1..s.key[3] :
                  Bitmap(s, i, j).vmin = lo /\ Bitmap(s, i, j).vmax = hi)

\* C9. After a call with valid input the heading of its surface is the title
\* when one was given and has no text when none was given.
C9_HeadingFollowsTitle ==
    (Returned /\ ValidInput(call))
    => (/\ OpenFigs(figs, figure_key(call)) # {}
        /\ LET s == figs[Target(call)]
           IN  IF call.title # None
               THEN s.suptitle = call.title
               ELSE s.suptitle \in {None, Some("")})

\* C10. A call leaves every figure of another key as it was, and makes a
\* surface exactly when its key has no open surface (first use of the key,
\* or use after its surface was closed).
C10_OneSurfacePerKey ==
    [][(Ran /\ ValidInput(call))
       => (/\ \A n \in 1..Len(figs) :
                 figs[n].key # figure_key(call) => figs'[n] = figs[n]
           /\ Len(figs') = Len(figs) + 1 <=> OpenFigs(figs, figure_key(call)) = {}
           /\ Len(figs') \in {Len(figs), Len(figs) + 1})]_vars

====
